---- MODULE Spec2Model ----
(***************************************************************************)
(* State-machine model of src/pages/PatientPage.tsx: the PatientPage       *)
(* component, its GraphQL read effect, its render contract, its tab state  *)
(* and the "Add Diagnostic Report" button.                                 *)
(*                                                                         *)
(* The JavaScript event loop runs one task at a time, so every handler     *)
(* (effect run, promise settlement, click, tab change) is one atomic       *)
(* action.  The onClick handler awaits a value that is not a promise; the  *)
(* continuation runs in the microtask queue of the same task, before any   *)
(* other event, so the whole click handler is one action as well.          *)
(***************************************************************************)
EXTENDS Naturals, Sequences, FiniteSets

\* ---------------------------------------------------------------- bounds
\* Number of read requests the model lets the component issue.
MaxRequests == 3
\* Number of clicks on the "Add Diagnostic Report" button.
MaxClicks == 2
\* Largest length of the orders / reports lists the platform returns.
MaxListLen == 1

\* Patient identifiers the route parameter ranges over.
Ids == {"a", "b"}
\* Identifiers the platform would assign to created reports.
CreatedIds == {"r1", "r2"}

VARIABLES
    lifecycle,      \* "rendered" (first render done, effect not yet run),
                    \* "mounted", "unmounted"
    id,             \* useParams().id, line 35
    tab,            \* useState('overview'), line 36
    response,       \* useState<PatientGraphQLResponse>(), line 38
    issued,         \* log of medplum.graphql(query) calls, in order (line 90)
    inflight,       \* sequence numbers of requests whose promise is pending
    arrived,        \* sequence numbers of fulfilled requests, in arrival order
    failed,         \* sequence numbers of rejected requests
    lateSetResponse,\* setResponse invocations made after the unmount
    createCalls,    \* log of medplum.createResource(payload) calls (line 106)
    clickLog,       \* the patient displayed at each click of the button
    navLog          \* log of navigate(target) calls (line 189)

vars == <<lifecycle, id, tab, response, issued, inflight, arrived, failed,
          lateSetResponse, createCalls, clickLog, navLog>>

\* ------------------------------------------------------------ data model
\* The value of `response` before any setResponse: undefined.
Undefined == [kind |-> "undefined"]

TabValues == {"overview", "timeline", "history"}

\* The template literal of lines 45-89: the identifier is interpolated into
\* the patient lookup and into the subject filter of orders and of reports.
GraphQLQuery(i) ==
    [patient        |-> i,
     ordersSubject  |-> "Patient/" \o i,
     reportsSubject |-> "Patient/" \o i]

\* What the platform answers to request number seq carrying query q: the
\* patient looked up and the two lists filtered by subject.  `rsp` tags every
\* part with the response it belongs to; n is the length of a list.
PatientGraphQLResponse(seq, q, nOrders, nReports) ==
    [kind |-> "response",
     data |-> [patient |-> [resourceType |-> "Patient", id |-> q.patient,
                            rsp |-> seq],
               orders  |-> [subject |-> q.ordersSubject, n |-> nOrders,
                            rsp |-> seq],
               reports |-> [subject |-> q.reportsSubject, n |-> nReports,
                            rsp |-> seq]]]

\* Mutant of setResponse: a request-generation token, applying a response only
\* when it answers the latest request.
setResponseIfLatest(prev, seq, value) ==
    IF seq = Len(issued) THEN value ELSE prev

\* Mutant of setResponse: merging the new patient into the held lists instead
\* of replacing the value as a whole.
setResponseMerged(prev, seq, value) ==
    IF prev = Undefined THEN value
    ELSE [value EXCEPT !.data.orders = prev.data.orders]

\* `.then(setResponse)`, line 90: the state setter is given the fulfilled
\* value and replaces the held value by it; prev is the value held before and
\* seq the request that was fulfilled.
setResponse(prev, seq, value) == value

\* Mutant of Rendered: no early return while the response is absent.
RenderedWithoutLoadingGuard ==
    IF lifecycle = "unmounted" THEN {}
    ELSE {"PatientHeader", "Tabs", "Tab:overview", "Tab:timeline",
          "Tab:history", "Panel:" \o tab}
         \cup (IF tab = "overview" THEN {"AddDiagnosticReport"} ELSE {})

\* ---------------------------------------------------------------- render
\* Lines 93-95 and 110-209: what the component renders.
Rendered ==
    IF lifecycle = "unmounted" THEN {}
    ELSE IF response = Undefined THEN {"Loader"}
    ELSE {"PatientHeader", "Tabs", "Tab:overview", "Tab:timeline",
          "Tab:history", "Panel:" \o tab}
         \cup (IF tab = "overview" THEN {"AddDiagnosticReport"} ELSE {})

\* Line 97: the patient the render destructures from the held response.
patient == response.data.patient

\* createReference(patient), line 102 (@medplum/core): a reference by
\* "<resourceType>/<id>".
createReference(p) == [reference |-> p.resourceType \o "/" \o p.id]

\* reportData, lines 100-105.
reportData(p) ==
    [resourceType |-> "DiagnosticReport",
     subject      |-> createReference(p),
     status       |-> "final",
     code         |-> [coding |-> <<[code |-> "Progress note"]>>]]

\* handleAddDiagnosticReport, lines 99-108, as its effect on the log of
\* createResource calls when it is invoked with p the displayed patient.
handleAddDiagnosticReport(calls, p) == Append(calls, reportData(p))

\* Mutant of onClickAwaited: the handler is invoked and its result awaited,
\* giving the created record with its assigned identifier.
onClickAwaitedInvoked == [kind |-> "resource", id |-> "r1"]

\* Line 186: `await handleAddDiagnosticReport` names the handler and does not
\* call it; awaiting a value that is no promise yields the value itself.
onClickAwaited == [kind |-> "function", name |-> "handleAddDiagnosticReport"]

\* `${report.id}`, lines 187 and 189: a function object has no `id` property,
\* and undefined is interpolated as the text "undefined".
InterpolatedId(v) == IF v.kind = "resource" THEN v.id ELSE "undefined"

\* ------------------------------------------------------------------ Init
Init ==
    /\ lifecycle = "rendered"
    /\ id \in Ids
    /\ tab = "overview"
    /\ response = Undefined
    /\ issued = <<>>
    /\ inflight = {}
    /\ arrived = <<>>
    /\ failed = {}
    /\ lateSetResponse = 0
    /\ createCalls = <<>>
    /\ clickLog = <<>>
    /\ navLog = <<>>

\* --------------------------------------------------------------- actions
\* Mutant of useEffect: the query is built from the identifier of the
\* previous render (a stale closure).
useEffectStaleId(i) ==
    /\ issued' = Append(issued, GraphQLQuery(id))
    /\ inflight' = inflight \cup {Len(issued) + 1}

\* The body of the effect, lines 44-91: build the query from the current
\* identifier and call medplum.graphql once.
useEffect(i) ==
    /\ issued' = Append(issued, GraphQLQuery(i))
    /\ inflight' = inflight \cup {Len(issued) + 1}

\* First run of the effect, after the first render.
Mount ==
    /\ lifecycle = "rendered"
    /\ lifecycle' = "mounted"
    /\ useEffect(id)
    /\ UNCHANGED <<id, tab, response, arrived, failed, lateSetResponse,
                   createCalls, clickLog, navLog>>

\* Mutant of ChangeId: the identifier change also resets the active tab.
ChangeIdResetsTab(newId) ==
    /\ lifecycle = "mounted"
    /\ newId # id
    /\ Len(issued) < MaxRequests
    /\ id' = newId
    /\ tab' = "overview"
    /\ useEffect(newId)
    /\ UNCHANGED <<lifecycle, response, arrived, failed, lateSetResponse,
                   createCalls, clickLog, navLog>>

\* Mutant of ChangeId: the identifier change also clears the held result.
ChangeIdClearsResponse(newId) ==
    /\ lifecycle = "mounted"
    /\ newId # id
    /\ Len(issued) < MaxRequests
    /\ id' = newId
    /\ response' = Undefined
    /\ useEffect(newId)
    /\ UNCHANGED <<lifecycle, tab, arrived, failed, lateSetResponse,
                   createCalls, clickLog, navLog>>

\* The route parameter changes: re-render, and the effect runs again because
\* `id` is in its dependency list (line 91).
ChangeId(newId) ==
    /\ lifecycle = "mounted"
    /\ newId # id
    /\ Len(issued) < MaxRequests
    /\ id' = newId
    /\ useEffect(newId)
    /\ UNCHANGED <<lifecycle, tab, response, arrived, failed, lateSetResponse,
                   createCalls, clickLog, navLog>>

\* The promise of request seq is fulfilled: `.then(setResponse)` runs.  On an
\* unmounted component the state update is attempted and dropped.
Resolve(seq, nOrders, nReports) ==
    /\ seq \in inflight
    /\ inflight' = inflight \ {seq}
    /\ arrived' = Append(arrived, seq)
    /\ LET value == PatientGraphQLResponse(seq, issued[seq], nOrders, nReports)
       IN IF lifecycle = "unmounted"
          THEN /\ lateSetResponse' = lateSetResponse + 1
               /\ response' = response
          ELSE /\ lateSetResponse' = lateSetResponse
               /\ response' = setResponse(response, seq, value)
    /\ UNCHANGED <<lifecycle, id, tab, issued, failed, createCalls, clickLog,
                   navLog>>

\* Mutant of Reject: a rejection handler that issues the query again.
RejectRetries(seq) ==
    /\ seq \in inflight
    /\ Len(issued) < MaxRequests
    /\ failed' = failed \cup {seq}
    /\ issued' = Append(issued, issued[seq])
    /\ inflight' = (inflight \ {seq}) \cup {Len(issued) + 1}
    /\ UNCHANGED <<lifecycle, id, tab, response, arrived, lateSetResponse,
                   createCalls, clickLog, navLog>>

\* The promise of request seq is rejected: line 90 registers no rejection
\* handler, so nothing runs.
Reject(seq) ==
    /\ seq \in inflight
    /\ inflight' = inflight \ {seq}
    /\ failed' = failed \cup {seq}
    /\ UNCHANGED <<lifecycle, id, tab, response, issued, arrived,
                   lateSetResponse, createCalls, clickLog, navLog>>

\* Tabs onTabChange={setTab}, line 114.
setTab(t) ==
    /\ "Tabs" \in Rendered
    /\ t # tab
    /\ tab' = t
    /\ UNCHANGED <<lifecycle, id, response, issued, inflight, arrived, failed,
                   lateSetResponse, createCalls, clickLog, navLog>>

\* onClick of the "Add Diagnostic Report" button, lines 185-190.  The handler
\* of lines 99-108 is never invoked, so no createResource call is made.
onClick ==
    /\ "AddDiagnosticReport" \in Rendered
    /\ Len(clickLog) < MaxClicks
    /\ clickLog' = Append(clickLog, patient)
    /\ LET report == onClickAwaited
       IN navLog' = Append(navLog, "/DiagnosticReport/" \o InterpolatedId(report))
    /\ UNCHANGED <<lifecycle, id, tab, response, issued, inflight, arrived,
                   failed, lateSetResponse, createCalls>>

\* Mutant of Unmount: an effect cleanup that aborts the pending requests.
UnmountCancels ==
    /\ lifecycle = "mounted"
    /\ lifecycle' = "unmounted"
    /\ inflight' = {}
    /\ UNCHANGED <<id, tab, response, issued, arrived, failed,
                   lateSetResponse, createCalls, clickLog, navLog>>

\* The component is torn down.  The effect returns no cleanup function
\* (lines 44-91), so nothing is cancelled.
Unmount ==
    /\ lifecycle = "mounted"
    /\ lifecycle' = "unmounted"
    /\ UNCHANGED <<id, tab, response, issued, inflight, arrived, failed,
                   lateSetResponse, createCalls, clickLog, navLog>>

Next ==
    \/ Mount
    \/ \E i \in Ids : ChangeId(i)
    \/ \E s \in 1..MaxRequests, no \in 0..MaxListLen, nr \in 0..MaxListLen :
          Resolve(s, no, nr)
    \/ \E s \in 1..MaxRequests : Reject(s)
    \/ \E t \in TabValues : setTab(t)
    \/ onClick
    \/ Unmount

Spec == Init /\ [][Next]_vars

\* ------------------------------------------------------------ shorthands
Last(q) == q[Len(q)]
Range(q) == {q[k] : k \in 1..Len(q)}
Held == response # Undefined
ThreeTabs == {"Tab:overview", "Tab:timeline", "Tab:history"}

\* ================================================================ claims

\* C1: for any interleaving of overlapping requests, the held result is the
\* response that arrived last (while the component is mounted), whether or
\* not it matches the current identifier; nothing discards an older response.
C1_LastArrivalIsHeld ==
    (arrived # <<>> /\ lateSetResponse = 0) =>
        /\ Held
        /\ response.data.patient.rsp = Last(arrived)
        /\ response.data.patient.id = issued[Last(arrived)].patient

\* C1 witness: the identifier went from one value to another while the first
\* request was pending, the first response arrived after the second, and the
\* result on display is the first one, which is not the current identifier's.
C1_Witness ==
    /\ lifecycle = "mounted"
    /\ arrived = <<2, 1>>
    /\ issued[1].patient # issued[2].patient
    /\ id = issued[2].patient
    /\ Held
    /\ response.data.patient.rsp = 1
    /\ response.data.patient.id # id

\* C2 (as claimed): every click on "Add Diagnostic Report" has issued exactly
\* one createResource call, whose payload references the patient displayed at
\* the click, with status "final" and the code "Progress note".
C2_OneCreateCallPerClick ==
    /\ Len(createCalls) = Len(clickLog)
    /\ \A k \in 1..Len(clickLog) :
          /\ k <= Len(createCalls)
          /\ handleAddDiagnosticReport(SubSeq(createCalls, 1, k - 1), clickLog[k])
                = SubSeq(createCalls, 1, k)
          /\ createCalls[k].subject.reference = "Patient/" \o clickLog[k].id
          /\ createCalls[k].status = "final"
          /\ createCalls[k].code.coding[1].code = "Progress note"

C4_OnlyLaterOtherIdentifierEndsLoading ==
    [][ (~Held /\ Held' /\ failed # {}) =>
            \A f \in failed :
                /\ Last(arrived') > f
                /\ issued[Last(arrived')].patient # issued[f].patient ]_vars

\* C4 (amended): a failing request writes nothing and issues nothing (no
\* retry), a failed request never delivers, and the view leaves the loading
\* state only in a step in which some other, still pending request succeeds
\* (whenever it was issued and whatever its identifier); with no request
\* pending the view shows the loading indicator and no step but an identifier
\* change is possible for it.
C4_FailureLeavesLoading ==
    /\ [](Range(arrived) \cap failed = {})
    /\ []((lifecycle = "mounted" /\ ~Held) => Rendered = {"Loader"})
    /\ [][ /\ (failed' # failed =>
                 /\ response' = response
                 /\ issued' = issued
                 /\ arrived' = arrived
                 /\ inflight' = inflight \ (failed' \ failed))
           /\ ((~Held /\ Held') =>
                 \E s \in inflight \ failed :
                    /\ arrived' = Append(arrived, s)
                    /\ response'.data.patient.rsp = s)
           /\ ((~Held /\ inflight = {} /\ lifecycle = "mounted") =>
                 (~Held' /\ (issued' # issued => id' # id))) ]_vars

\* C4 witness: the only request failed; the view is stuck on the loader with
\* nothing pending.
C4_Witness ==
    /\ lifecycle = "mounted"
    /\ failed = {1}
    /\ Len(issued) = 1
    /\ inflight = {}
    /\ ~Held
    /\ Rendered = {"Loader"}

\* C5: while no result is held only the loader is rendered (no header, tabs
\* or button) and the button has never been clicked; once a result is held
\* the header and the three tabs are rendered.
C5_LoaderOnlyUntilResult ==
    /\ ~Held => /\ clickLog = <<>>
                /\ lifecycle # "unmounted" => Rendered = {"Loader"}
    /\ (Held /\ lifecycle # "unmounted") =>
          /\ ThreeTabs \subseteq Rendered
          /\ "PatientHeader" \in Rendered
          /\ "Loader" \notin Rendered
    /\ \A k \in 1..Len(clickLog) : clickLog[k].resourceType = "Patient"

\* C5 witness: a result is held, the tabs are on display and the button has
\* been used.
C5_Witness ==
    /\ lifecycle = "mounted"
    /\ Held
    /\ ThreeTabs \subseteq Rendered
    /\ clickLog # <<>>

\* C6: the mount and every identifier change issue exactly one read request
\* carrying the then-current identifier in the patient lookup and in both
\* subject filters; no other step issues a request.
C6_OneRequestPerIdentifier ==
    [][ IF (lifecycle = "rendered" /\ lifecycle' = "mounted") \/ id' # id
        THEN /\ Len(issued') = Len(issued) + 1
             /\ SubSeq(issued', 1, Len(issued)) = issued
             /\ Last(issued').patient = id'
             /\ Last(issued').ordersSubject = "Patient/" \o id'
             /\ Last(issued').reportsSubject = "Patient/" \o id'
             /\ inflight' = inflight \cup {Len(issued')}
        ELSE issued' = issued ]_vars

\* C6 witness: two requests for the mount and one identifier change, after a
\* response, a failure, a tab selection and a click.
C6_Witness ==
    /\ Len(issued) = 2
    /\ issued[2].patient = id
    /\ issued[1].patient # id
    /\ failed # {}
    /\ arrived # <<>>
    /\ tab # "overview"
    /\ clickLog # <<>>

\* C7: the active tab starts as "overview" and changes only in a tab
\* selection step.
C7_TabChangedOnlyBySelection ==
    /\ tab = "overview"
    /\ [][ tab' # tab => \E t \in TabValues : setTab(t) ]_vars

\* C7 witness: a tab other than the first is active while the result of a
\* second patient has replaced the first one's.
C7_Witness ==
    /\ lifecycle = "mounted"
    /\ tab = "history"
    /\ Len(arrived) = 2
    /\ issued[arrived[1]].patient # issued[arrived[2]].patient
    /\ response.data.patient.rsp = arrived[2]

\* C8: the held result is absent until the first successful completion, is
\* written only by the successful completion of a read request, which
\* replaces it as a whole, so that patient, orders and reports always come
\* from the same response.
C8_SingleWriterWholeReplace ==
    /\ [](arrived = <<>> => ~Held)
    /\ [](Held => /\ response.data.orders.rsp = response.data.patient.rsp
                  /\ response.data.reports.rsp = response.data.patient.rsp
                  /\ response.data.orders.subject
                        = "Patient/" \o response.data.patient.id
                  /\ response.data.reports.subject
                        = "Patient/" \o response.data.patient.id)
    /\ [][ response' # response =>
             \E s \in inflight :
                /\ inflight' = inflight \ {s}
                /\ arrived' = Append(arrived, s)
                /\ response'.data.patient.rsp = s
                /\ response'.data.orders.rsp = s
                /\ response'.data.reports.rsp = s ]_vars

\* C8 witness: a second response, for another identifier, has replaced the
\* first one.
C8_Witness ==
    /\ Len(arrived) = 2
    /\ lateSetResponse = 0
    /\ issued[arrived[1]].patient # issued[arrived[2]].patient
    /\ response.data.patient.rsp = arrived[2]
    /\ response.data.orders.rsp = arrived[2]

\* C9: the unmount cancels no pending request, and a response that arrives
\* after the unmount still invokes the state update.
C9_UnmountCancelsNothing ==
    [][ /\ ((lifecycle = "mounted" /\ lifecycle' = "unmounted") =>
               (inflight' = inflight /\ failed' = failed))
        /\ ((lifecycle = "unmounted" /\ arrived' # arrived) =>
               lateSetResponse' = lateSetResponse + 1) ]_vars

\* C9 witness: a state update was attempted after the unmount.
C9_Witness ==
    /\ lifecycle = "unmounted"
    /\ lateSetResponse > 0

\* C10: a held result is never cleared; an identifier change and a failure
\* leave it as it is, and a click records the patient on display.
C10_HeldResultNeverCleared ==
    [][ /\ (Held => Held')
        /\ (id' # id => response' = response)
        /\ (failed' # failed => response' = response)
        /\ (clickLog' # clickLog =>
               Last(clickLog') = response.data.patient) ]_vars

\* C10 witness: the identifier changed, the new request failed, nothing is
\* pending, and the view still shows the previous patient, which a click in
\* that window recorded.
C10_Witness ==
    /\ lifecycle = "mounted"
    /\ Held
    /\ response.data.patient.id # id
    /\ "Loader" \notin Rendered
    /\ Len(issued) \in failed
    /\ inflight = {}
    /\ clickLog # <<>>
    /\ Last(clickLog).id # id
====
